---- MODULE Spec2Model ----
(***************************************************************************)
(* Secure chunked transfer of p2p-share: sendFileInChunks (sender) and     *)
(* useReceiver().bind (receiver) over one ordered, reliable data channel.  *)
(*                                                                         *)
(* Both sides are single-threaded and event driven.  A handler runs        *)
(* synchronously up to its first `await`; the asynchronous Web Crypto      *)
(* operation it awaits is kept in `tasks` and its continuation runs when   *)
(* the operation completes.  Frame deliveries and completions interleave   *)
(* freely, and concurrent operations may complete in any order.            *)
(*                                                                         *)
(* Cryptography is symbolic: a ciphertext records the key, IV and          *)
(* plaintext it was made from and decrypts only under the same key and IV  *)
(* when untampered; SHA-256 is collision free.  Sizes are scaled: CHUNK is *)
(* 2 model bytes instead of 64 * 1024.                                     *)
(***************************************************************************)
EXTENDS Integers, Sequences, FiniteSets, TLC

VARIABLES
    file,              \* the sender's file content (file.arrayBuffer())
    spc,               \* sender position in sendFileInChunks
    sAesKey,           \* sender: aesKey
    readPos,           \* sender: bytes the stream reader has handed out
    svalue,            \* sender: `value` of the current reader.read()
    offset,            \* sender: offset into `value`
    sent,              \* sender: sent
    lastSent,          \* sender: lastSent
    ivCtr,             \* IVs drawn so far by aesGcmEncrypt
    sProgress,         \* the reports passed to onProgress, in order
    sStatus,           \* sender: last setStatus
    sentLog,           \* every frame the sender passed to dc.send, in order
    chanSR,            \* frames in flight sender -> receiver
    chanRS,            \* frames in flight receiver -> sender
    rbound,            \* receiver: dc.onmessage is installed
    meta,              \* receiver: meta
    receivedBytes,     \* receiver: receivedBytes
    chunks,            \* receiver: chunks
    expectingBinary,   \* receiver: expectingBinary
    pendingChunkInfo,  \* receiver: pendingChunkInfo
    aesKey,            \* receiver: aesKey
    tasks,             \* receiver: pending asynchronous operations
    rProgress,         \* the values passed to setProgress, in order
    rStatus,           \* receiver: last setStatus
    downloadUrl,       \* the blobs passed to setDownloadUrl, in order
    authFailed,        \* history: a decryption was rejected
    strayDropped,      \* history: a binary frame without header was dropped
    hdrOutstanding,    \* history: a header was delivered and no binary frame since
    ekeySeen,          \* history: an `ekey` carrying a key reached the sender
    sIgnored,          \* history: the waiting sender was handed another frame
    arrived,           \* history: plaintexts of the bodies that were handed to
                       \* decryption and authenticate, in arrival order
    attacks            \* channel interferences so far

senderVars == <<file, spc, sAesKey, readPos, svalue, offset, sent, lastSent,
                ivCtr, sProgress, sStatus, sentLog>>
receiverVars == <<rbound, meta, receivedBytes, chunks, expectingBinary,
                  pendingChunkInfo, aesKey, tasks, rProgress, rStatus, downloadUrl>>
historyVars == <<authFailed, strayDropped, hdrOutstanding, ekeySeen, sIgnored,
                 arrived>>
vars == <<senderVars, receiverVars, historyVars, chanSR, chanRS, attacks>>

\* ------------------------------------------------------------------ bounds

\* Largest file size explored.
MaxSize == 5
\* Interferences with the channel per run (specification SpecAdv).
MaxAttacks == 1
\* Largest file size explored under interference, failures and reuse
\* (specifications SpecAdv, SpecFail, SpecProto, SpecReuse).
MaxAdvSize == 2
\* Chunk size; 64 * 1024 in the source, scaled.
CHUNK == 2

\* ----------------------------------------------------------------- helpers

Min(a, b) == IF a <= b THEN a ELSE b

Null == [type |-> "null"]
NoKey == {}
EmptyStr == <<>>

\* JavaScript truthiness of a string-valued or missing field.
Truthy(v) == v /= EmptyStr

\* File contents explored: for every size up to MaxSize, one file whose chunks
\* all differ and one whose bytes are all equal (so that chunks coincide).
Varied(n) == [i \in 1..n |-> i % 3]
Uniform(n) == [i \in 1..n |-> 0]
Files == {Varied(n) : n \in 0..MaxSize} \cup {Uniform(n) : n \in 0..MaxSize}

\* new Blob(chunks): the concatenation of the parts, in list order.
RECURSIVE Blob(_)
Blob(parts) == IF parts = <<>> THEN <<>> ELSE Head(parts) \o Blob(Tail(parts))

RemoveAt(s, i) == SubSeq(s, 1, i - 1) \o SubSeq(s, i + 1, Len(s))

\* ------------------------------------------------------------------ crypto

SenderKeys == "ks"
ReceiverKeys == "kr"

\* exportKey("jwk", publicKey)
exportPubKeyJwk(k) == [kty |-> "EC", crv |-> "P-256", id |-> k]

\* importKey("jwk", jwk, ECDH P-256) resolves for a well-formed JWK only,
ImportOk(jwk) == jwk /= Null /\ jwk.kty = "EC" /\ jwk.crv = "P-256"

\* with the key the JWK describes.
importPubKeyJwk(jwk) == jwk.id

\* ECDH: both sides obtain the same bits from (own private, peer public).
deriveAesKey(myPrivateKey, theirPublicKey) == {myPrivateKey, theirPublicKey}

\* AES-GCM with the IV drawn by getRandomValues (here: the next fresh IV).
aesGcmEncrypt(key, data, iv) ==
    [iv |-> iv, ct |-> [key |-> key, iv |-> iv, pt |-> data, tampered |-> FALSE]]

\* ct.length: plaintext length plus the 16 byte GCM tag.
CtLen(ct) == Len(ct.pt) + 16

\* crypto.subtle.decrypt resolves only when key, IV and tag verify.
DecryptOk(key, iv, ct) ==
    /\ key /= NoKey
    /\ ct.key = key
    /\ ct.iv = iv
    /\ ~ct.tampered

aesGcmDecrypt(key, iv, ct) == ct.pt

\* sha256(buffer): lower-case hex of the digest (never the empty string).
sha256(buffer) == <<"lower">> \o buffer

\* ------------------------------------------------------------------- frames

\* Mutant of ChunkHeader: len taken from the plaintext slice, not from ct.
ChunkHeader_PlainLen(enc) == [type |-> "chunk", iv |-> enc.iv, len |-> Len(enc.ct.pt)]

MetaFrame(f) ==
    [type |-> "meta", name |-> "file", size |-> Len(f), hash |-> sha256(f),
     ecdhPub |-> exportPubKeyJwk(SenderKeys)]

ChunkHeader(enc) == [type |-> "chunk", iv |-> enc.iv, len |-> CtLen(enc.ct)]

BinaryFrame(ct) == [type |-> "binary", ct |-> ct]

EndFrame == [type |-> "end"]

EkeyFrame(k) == [type |-> "ekey", pub |-> exportPubKeyJwk(k)]

\* ------------------------------------------------------------------ sender

\* Mutant of SenderProgress: the share that remains instead of the share sent.
SenderProgress_Remaining(s, total) == <<(total - s) * 100, total>>

\* (sent / total) * 100 as the fraction <<numerator, denominator>>.
SenderProgress(s, total) == <<s * 100, total>>

\* The final report of sendFileInChunks.
FinalReport == [progress |-> <<100, 1>>, speed |-> 0, eta |-> <<0, 1>>]

\* The throttled report inside the loop; the elapsed time, at least 500 ms, is
\* taken as one unit, so speed is deltaBytes and eta is the fraction
\* remaining / speed (<<0, 0>> stands for null).
LoopReport(s, last, total) ==
    [progress |-> SenderProgress(s, total), speed |-> s - last,
     eta |-> IF s - last > 0 THEN <<total - s, s - last>> ELSE <<0, 0>>]

\* Mutant of IsPeerKeyMsg: any text frame resolves the wait.
IsPeerKeyMsg_AnyText(msg) == msg.type /= "binary"

\* The listener of waitForPeerPubKey resolves on this frame only.
IsPeerKeyMsg(msg) ==
    /\ msg.type /= "binary"
    /\ msg.type = "ekey"
    /\ msg.pub /= Null

\* value.subarray(offset, Math.min(offset + CHUNK, value.byteLength))
Slice(value, off) == SubSeq(value, off + 1, Min(off + CHUNK, Len(value)))

\* Phases 0-2 and the start of phase 3: keys, hash, dc.send(meta), and the
\* listener of waitForPeerPubKey registered in the same turn.
SendMeta ==
    /\ spc = "INIT"
    /\ spc' = "AWAITING_PEER_KEY"
    /\ sentLog' = Append(sentLog, MetaFrame(file))
    /\ chanSR' = Append(chanSR, MetaFrame(file))
    /\ sStatus' = "Waiting for receiver's E2E key..."
    /\ UNCHANGED <<file, sAesKey, readPos, svalue, offset, sent, lastSent, ivCtr,
                   sProgress, chanRS, receiverVars, historyVars, attacks>>

\* A frame from the receiver reaches the sender.  Only the listener of
\* waitForPeerPubKey is ever registered; it is removed once it has resolved.
\* Then the peer key is imported and the AES key derived; a rejected import
\* rejects sendFileInChunks.
SenderReceive ==
    /\ chanRS /= <<>>
    /\ chanRS' = Tail(chanRS)
    /\ LET msg == Head(chanRS)
       IN  /\ IF spc = "AWAITING_PEER_KEY" /\ IsPeerKeyMsg(msg)
              THEN IF ImportOk(msg.pub)
                   THEN /\ sAesKey' = deriveAesKey(SenderKeys, importPubKeyJwk(msg.pub))
                        /\ spc' = "STREAMING"
                        /\ sStatus' = "Sending (encrypted)..."
                   ELSE /\ spc' = "FAILED"
                        /\ UNCHANGED <<sAesKey, sStatus>>
              ELSE UNCHANGED <<sAesKey, spc, sStatus>>
           /\ ekeySeen' = (ekeySeen \/ (msg.type = "ekey" /\ msg.pub /= Null))
           /\ sIgnored' = (sIgnored \/ (spc = "AWAITING_PEER_KEY" /\ spc' = spc))
    /\ UNCHANGED <<file, readPos, svalue, offset, sent, lastSent, ivCtr, sProgress,
                   sentLog, chanSR, receiverVars, authFailed, strayDropped,
                   hdrOutstanding, arrived, attacks>>

\* reader.read() resolves with the next piece of the blob, of any size.
ReaderRead ==
    /\ spc = "STREAMING"
    /\ offset >= Len(svalue)
    /\ readPos < Len(file)
    /\ \E n \in 1..(Len(file) - readPos) :
          /\ svalue' = SubSeq(file, readPos + 1, readPos + n)
          /\ readPos' = readPos + n
    /\ offset' = 0
    /\ UNCHANGED <<file, spc, sAesKey, sent, lastSent, ivCtr, sProgress, sStatus,
                   sentLog, chanSR, chanRS, receiverVars, historyVars, attacks>>

\* One turn of the inner loop: slice, encrypt, send header and body, count,
\* and report when at least 500 ms have passed since the last report.
EncryptAndSend ==
    /\ spc = "STREAMING"
    /\ offset < Len(svalue)
    /\ LET slice == Slice(svalue, offset)
           enc == aesGcmEncrypt(sAesKey, slice, ivCtr + 1)
           frames == <<ChunkHeader(enc), BinaryFrame(enc.ct)>>
           total == Len(file)
       IN  /\ ivCtr' = ivCtr + 1
           /\ sentLog' = sentLog \o frames
           /\ chanSR' = chanSR \o frames
           /\ sent' = sent + Len(slice)
           /\ offset' = offset + Len(slice)
           /\ \E elapsed \in BOOLEAN :
                 IF elapsed
                 THEN /\ sProgress' = Append(sProgress, LoopReport(sent', lastSent, total))
                      /\ lastSent' = sent'
                 ELSE UNCHANGED <<sProgress, lastSent>>
    /\ UNCHANGED <<file, spc, sAesKey, readPos, svalue, sStatus, chanRS,
                   receiverVars, historyVars, attacks>>

\* reader.read() resolves with done: send `end`, report 100, finish.
SendEnd ==
    /\ spc = "STREAMING"
    /\ offset >= Len(svalue)
    /\ readPos >= Len(file)
    /\ spc' = "DONE"
    /\ sentLog' = Append(sentLog, EndFrame)
    /\ chanSR' = Append(chanSR, EndFrame)
    /\ sProgress' = Append(sProgress, FinalReport)
    /\ sStatus' = "Completed (encrypted)."
    /\ UNCHANGED <<file, sAesKey, readPos, svalue, offset, sent, lastSent, ivCtr,
                   chanRS, receiverVars, historyVars, attacks>>

\* ---------------------------------------------------------------- receiver

\* meta?.size as a condition.
HasSize(m) == m /= Null /\ m.size /= 0

\* (receivedBytes / meta.size) * 100 as the fraction <<numerator, denominator>>.
ReceiverProgress(received, m) == <<received * 100, m.size>>

\* Mutant of VerifyFails: the comparison is skipped.
VerifyFails_Never(m, hash) == FALSE

\* Mutant of VerifyFails: an empty assembly is taken for a failed transfer.
VerifyFails_RejectsEmpty(m, hash) ==
    \/ hash = sha256(<<>>)
    \/ (m /= Null /\ Truthy(m.hash) /\ hash /= m.hash)

\* meta?.hash && hash !== meta.hash
VerifyFails(m, hash) == m /= Null /\ Truthy(m.hash) /\ hash /= m.hash

StatusOk == "Completed. Integrity OK (encrypted)"
StatusIntegrityFailed == "Integrity check failed"

\* bind(dc) is called as soon as the channel is announced (pc.ondatachannel)
\* and awaits generateECDH() first; this is the step in which that await
\* resolves and dc.onmessage is assigned.  Until then the receiver is inside
\* bind with no handler on the channel.
Bind ==
    /\ ~rbound
    /\ rbound' = TRUE
    /\ rStatus' = "DataChannel open. Waiting for metadata..."
    /\ UNCHANGED <<meta, receivedBytes, chunks, expectingBinary, pendingChunkInfo,
                   aesKey, tasks, rProgress, downloadUrl>>
    /\ UNCHANGED <<senderVars, historyVars, chanSR, chanRS, attacks>>

\* The synchronous part of dc.onmessage for the frame at the head of the
\* channel, up to the first await.  Without a handler the event is lost.
Deliver ==
    /\ chanSR /= <<>>
    /\ chanSR' = Tail(chanSR)
    /\ LET f == Head(chanSR)
       IN  /\ CASE ~rbound ->
                     UNCHANGED <<meta, rStatus, tasks, pendingChunkInfo, expectingBinary>>
                [] rbound /\ f.type = "meta" ->
                     /\ meta' = f
                     /\ rStatus' = "Receiving"
                     /\ tasks' = Append(tasks, [kind |-> "derive", pub |-> f.ecdhPub])
                     /\ UNCHANGED <<pendingChunkInfo, expectingBinary>>
                [] rbound /\ f.type = "chunk" ->
                     /\ pendingChunkInfo' = f
                     /\ expectingBinary' = f.len
                     /\ UNCHANGED <<meta, rStatus, tasks>>
                [] rbound /\ f.type = "end" ->
                     /\ tasks' = Append(tasks, [kind |-> "digest", blob |-> Blob(chunks)])
                     /\ UNCHANGED <<meta, rStatus, pendingChunkInfo, expectingBinary>>
                [] rbound /\ f.type = "binary" /\ pendingChunkInfo /= Null ->
                     /\ tasks' = Append(tasks, [kind |-> "decrypt", key |-> aesKey,
                                                iv |-> pendingChunkInfo.iv, ct |-> f.ct])
                     /\ UNCHANGED <<meta, rStatus, pendingChunkInfo, expectingBinary>>
                [] OTHER ->
                     UNCHANGED <<meta, rStatus, tasks, pendingChunkInfo, expectingBinary>>
           /\ hdrOutstanding' = IF ~rbound THEN hdrOutstanding
                                ELSE IF f.type = "chunk" THEN TRUE
                                ELSE IF f.type = "binary" THEN FALSE
                                ELSE hdrOutstanding
           /\ strayDropped' = (strayDropped \/ (rbound /\ f.type = "binary"
                                  /\ pendingChunkInfo = Null /\ ~hdrOutstanding))
           /\ arrived' = IF /\ rbound
                            /\ f.type = "binary"
                            /\ pendingChunkInfo /= Null
                            /\ DecryptOk(aesKey, pendingChunkInfo.iv, f.ct)
                         THEN Append(arrived, aesGcmDecrypt(aesKey, pendingChunkInfo.iv, f.ct))
                         ELSE arrived
    /\ UNCHANGED <<rbound, receivedBytes, chunks, aesKey, rProgress, downloadUrl,
                   authFailed, ekeySeen, sIgnored, senderVars, chanRS, attacks>>

\* Mutant of DeriveDone: the derived key is bound to a local of the handler
\* and the receiver's aesKey is left as it was.
DeriveDone_KeyNotStored(i) ==
    /\ tasks[i].kind = "derive"
    /\ tasks' = RemoveAt(tasks, i)
    /\ chanRS' = Append(chanRS, EkeyFrame(ReceiverKeys))
    /\ UNCHANGED <<rbound, meta, receivedBytes, chunks, expectingBinary,
                   pendingChunkInfo, aesKey, rProgress, rStatus, downloadUrl>>
    /\ UNCHANGED <<senderVars, historyVars, chanSR, attacks>>

\* meta branch after its awaits: the key is derived and `ekey` is sent.
DeriveDone(i) ==
    /\ tasks[i].kind = "derive"
    /\ tasks' = RemoveAt(tasks, i)
    /\ aesKey' = deriveAesKey(ReceiverKeys, importPubKeyJwk(tasks[i].pub))
    /\ chanRS' = Append(chanRS, EkeyFrame(ReceiverKeys))
    /\ UNCHANGED <<rbound, meta, receivedBytes, chunks, expectingBinary,
                   pendingChunkInfo, rProgress, rStatus, downloadUrl>>
    /\ UNCHANGED <<senderVars, historyVars, chanSR, attacks>>

\* binary branch after aesGcmDecrypt: on success the plaintext is appended and
\* the stashed header cleared; a rejection ends the handler where it stands.
DecryptDone(i) ==
    /\ tasks[i].kind = "decrypt"
    /\ tasks' = RemoveAt(tasks, i)
    /\ LET t == tasks[i]
       IN  IF DecryptOk(t.key, t.iv, t.ct)
           THEN LET pt == aesGcmDecrypt(t.key, t.iv, t.ct)
                IN  /\ chunks' = Append(chunks, pt)
                    /\ receivedBytes' = receivedBytes + Len(pt)
                    /\ pendingChunkInfo' = Null
                    /\ expectingBinary' = 0
                    /\ rProgress' = IF HasSize(meta)
                                    THEN Append(rProgress, ReceiverProgress(receivedBytes', meta))
                                    ELSE rProgress
                    /\ UNCHANGED authFailed
           ELSE /\ authFailed' = TRUE
                /\ UNCHANGED <<chunks, receivedBytes, pendingChunkInfo, expectingBinary,
                               rProgress>>
    /\ UNCHANGED <<rbound, meta, aesKey, rStatus, downloadUrl, strayDropped,
                   hdrOutstanding, ekeySeen, sIgnored, arrived, senderVars, chanSR,
                   chanRS, attacks>>

\* end branch after its awaits: compare the digest of the blob taken when
\* `end` arrived with meta.hash, then expose the blob or report the failure.
DigestDone(i) ==
    /\ tasks[i].kind = "digest"
    /\ tasks' = RemoveAt(tasks, i)
    /\ IF VerifyFails(meta, sha256(tasks[i].blob))
       THEN /\ rStatus' = StatusIntegrityFailed
            /\ UNCHANGED downloadUrl
       ELSE /\ downloadUrl' = Append(downloadUrl, tasks[i].blob)
            /\ rStatus' = StatusOk
    /\ UNCHANGED <<rbound, meta, receivedBytes, chunks, expectingBinary,
                   pendingChunkInfo, aesKey, rProgress>>
    /\ UNCHANGED <<senderVars, historyVars, chanSR, chanRS, attacks>>

\* ------------------------------------------------------------ specification

Init ==
    /\ file \in Files
    /\ spc = "INIT"
    /\ sAesKey = NoKey
    /\ readPos = 0
    /\ svalue = <<>>
    /\ offset = 0
    /\ sent = 0
    /\ lastSent = 0
    /\ ivCtr = 0
    /\ sProgress = <<>>
    /\ sStatus = "Calculating file hash (SHA-256)..."
    /\ sentLog = <<>>
    /\ chanSR = <<>>
    /\ chanRS = <<>>
    /\ rbound = FALSE
    /\ meta = Null
    /\ receivedBytes = 0
    /\ chunks = <<>>
    /\ expectingBinary = 0
    /\ pendingChunkInfo = Null
    /\ aesKey = NoKey
    /\ tasks = <<>>
    /\ rProgress = <<>>
    /\ rStatus = "Idle"
    /\ downloadUrl = <<>>
    /\ authFailed = FALSE
    /\ strayDropped = FALSE
    /\ hdrOutstanding = FALSE
    /\ ekeySeen = FALSE
    /\ sIgnored = FALSE
    /\ arrived = <<>>
    /\ attacks = 0

Next ==
    \/ SendMeta
    \/ SenderReceive
    \/ ReaderRead
    \/ EncryptAndSend
    \/ SendEnd
    \/ Bind
    \/ Deliver
    \/ \E i \in 1..Len(tasks) : DeriveDone(i)
    \/ \E i \in 1..Len(tasks) : DecryptDone(i)
    \/ \E i \in 1..Len(tasks) : DigestDone(i)

Spec == Init /\ [][Next]_vars

\* ------------------------------------------------- interference (SpecAdv)

\* Values a rewritten meta.hash takes: the empty string, and digests of
\* contents other than the file's.
TamperedHashes == {EmptyStr, sha256(<<>>), sha256(<<1>>), sha256(<<9>>)}

\* A ciphertext that was not produced under any session key.
ForeignCt == [key |-> NoKey, iv |-> 0, pt |-> <<>>, tampered |-> TRUE]

\* Frames that are not an `ekey` carrying a key.
SenderJunk == {[type |-> "ekey", pub |-> Null], [type |-> "junk", pub |-> Null],
               [type |-> "binary", ct |-> ForeignCt]}

\* The hash field of a meta frame in flight is rewritten.
TamperMetaHash ==
    /\ attacks < MaxAttacks
    /\ \E i \in 1..Len(chanSR), h \in TamperedHashes :
          /\ chanSR[i].type = "meta"
          /\ h /= chanSR[i].hash
          /\ chanSR' = [chanSR EXCEPT ![i].hash = h]
    /\ attacks' = attacks + 1
    /\ UNCHANGED <<senderVars, receiverVars, historyVars, chanRS>>

\* A bit of a binary frame in flight is flipped.
TamperCiphertext ==
    /\ attacks < MaxAttacks
    /\ \E i \in 1..Len(chanSR) :
          /\ chanSR[i].type = "binary"
          /\ chanSR' = [chanSR EXCEPT ![i].ct.tampered = TRUE]
    /\ attacks' = attacks + 1
    /\ UNCHANGED <<senderVars, receiverVars, historyVars, chanRS>>

\* A binary frame that belongs to no header is put on the channel.
InjectBinary ==
    /\ attacks < MaxAttacks
    /\ chanSR' = Append(chanSR, BinaryFrame(ForeignCt))
    /\ attacks' = attacks + 1
    /\ UNCHANGED <<senderVars, receiverVars, historyVars, chanRS>>

\* A frame other than a proper `ekey` is put on the channel to the sender.
InjectToSender ==
    /\ attacks < MaxAttacks
    /\ \E f \in SenderJunk : chanRS' = Append(chanRS, f)
    /\ attacks' = attacks + 1
    /\ UNCHANGED <<senderVars, receiverVars, historyVars, chanSR>>

InitAdv == Init /\ Len(file) <= MaxAdvSize

NextAdv ==
    \/ Next
    \/ TamperMetaHash
    \/ TamperCiphertext
    \/ InjectBinary
    \/ InjectToSender

SpecAdv == InitAdv /\ [][NextAdv]_vars

\* ------------------------------------------- failing operations (SpecFail)

\* One turn of the inner loop in which an operation throws: aesGcmEncrypt
\* rejects, or dc.send throws for the header, or dc.send throws for the body
\* after the header went out.  Nothing catches the exception: the promise of
\* sendFileInChunks rejects and what was sent stays sent.
EncryptAndSendFails ==
    /\ spc = "STREAMING"
    /\ offset < Len(svalue)
    /\ \E failing \in {"encrypt", "header", "body"} :
          LET enc == aesGcmEncrypt(sAesKey, Slice(svalue, offset), ivCtr + 1)
              frames == IF failing = "body" THEN <<ChunkHeader(enc)>> ELSE <<>>
          IN  /\ sentLog' = sentLog \o frames
              /\ chanSR' = chanSR \o frames
    /\ ivCtr' = ivCtr + 1
    /\ spc' = "FAILED"
    /\ UNCHANGED <<file, sAesKey, readPos, svalue, offset, sent, lastSent,
                   sProgress, sStatus, chanRS, receiverVars, historyVars, attacks>>

NextFail ==
    \/ Next
    \/ EncryptAndSendFails

SpecFail == InitAdv /\ [][NextFail]_vars

\* ------------------------------- frames outside the protocol (SpecProto)

\* String.prototype.toUpperCase / toLowerCase on a hex digest.
UpperCase(h) == IF h = EmptyStr THEN h ELSE <<"upper">> \o Tail(h)
LowerCase(h) == IF h = EmptyStr THEN h ELSE <<"lower">> \o Tail(h)

\* s with frame f put in after its first i frames.
InsertAt(s, i, f) == SubSeq(s, 1, i) \o <<f>> \o SubSeq(s, i + 1, Len(s))

\* A chunk header that announces no body of the sender.
ForeignHeader == [type |-> "chunk", iv |-> 0, len |-> 16]

\* A meta frame for other content than the file being sent.
ForeignMeta ==
    [type |-> "meta", name |-> "other", size |-> MaxAdvSize + 1,
     hash |-> sha256(<<9>>), ecdhPub |-> exportPubKeyJwk(SenderKeys)]

\* A further chunk header is put on the channel, anywhere among the frames in
\* flight.
InjectHeader ==
    /\ attacks < MaxAttacks
    /\ \E i \in 0..Len(chanSR) : chanSR' = InsertAt(chanSR, i, ForeignHeader)
    /\ attacks' = attacks + 1
    /\ UNCHANGED <<senderVars, receiverVars, historyVars, chanRS>>

\* A further meta frame is put on the channel once the sender has sent its own.
InjectMeta ==
    /\ attacks < MaxAttacks
    /\ sentLog /= <<>>
    /\ \E i \in 0..Len(chanSR) : chanSR' = InsertAt(chanSR, i, ForeignMeta)
    /\ attacks' = attacks + 1
    /\ UNCHANGED <<senderVars, receiverVars, historyVars, chanRS>>

\* The hash field of a meta frame in flight arrives in upper-case hex, as a
\* peer that formats digests in upper case sends it.
RecaseMetaHash ==
    /\ attacks < MaxAttacks
    /\ \E i \in 1..Len(chanSR) :
          /\ chanSR[i].type = "meta"
          /\ chanSR' = [chanSR EXCEPT ![i].hash = UpperCase(@)]
    /\ attacks' = attacks + 1
    /\ UNCHANGED <<senderVars, receiverVars, historyVars, chanRS>>

NextProto ==
    \/ Next
    \/ InjectHeader
    \/ InjectMeta
    \/ RecaseMetaHash

SpecProto == InitAdv /\ [][NextProto]_vars

\* ------------------------------------- reuse of the channel (SpecReuse)

\* Transfers started over one channel per run.
MaxTransfers == 2

\* Number of frames of type t in s.
RECURSIVE CountType(_, _)
CountType(s, t) ==
    IF s = <<>> THEN 0
    ELSE (IF Head(s).type = t THEN 1 ELSE 0) + CountType(Tail(s), t)

\* handleSend is invoked again once sendFileInChunks has returned: the same
\* data channel, the same bound receiver, a new call with its own locals.
\* (The key pair of every call is written SenderKeys: the receiver derives
\* its key anew from each meta, so the pairs need not be told apart.)
SendAgain ==
    /\ spc \in {"DONE", "FAILED"}
    /\ CountType(sentLog, "meta") < MaxTransfers
    /\ file' \in {f \in Files : Len(f) <= MaxAdvSize}
    /\ spc' = "INIT"
    /\ sAesKey' = NoKey
    /\ readPos' = 0
    /\ svalue' = <<>>
    /\ offset' = 0
    /\ sent' = 0
    /\ lastSent' = 0
    /\ sStatus' = "Calculating file hash (SHA-256)..."
    /\ ekeySeen' = FALSE
    /\ sIgnored' = FALSE
    /\ UNCHANGED <<ivCtr, sProgress, sentLog, chanSR, chanRS, receiverVars,
                   authFailed, strayDropped, hdrOutstanding, arrived, attacks>>

NextReuse ==
    \/ Next
    \/ SendAgain

SpecReuse == InitAdv /\ [][NextReuse]_vars

\* ------------------------------------------------------------------ claims

Last(s) == s[Len(s)]

\* a/b <= c/d for fractions with positive denominators.
FracLeq(p, q) == p[1] * q[2] <= q[1] * p[2]

\* Nothing is in flight and no asynchronous operation is pending.
Quiescent == chanSR = <<>> /\ chanRS = <<>> /\ tasks = <<>>

\* The receiver has exposed an output and reported the integrity-OK status.
Complete == rStatus = StatusOk /\ downloadUrl /= <<>>

\* C1 (round trip): whatever the receiver passes to setDownloadUrl equals the
\* sender's file content byte for byte, for every file and every interleaving
\* of deliveries and completions.
C1_RoundTrip == \A i \in 1..Len(downloadUrl) : downloadUrl[i] = file

\* C1 witness: a file of two full chunks and a shorter one was exposed after
\* three chunks were decrypted and assembled.
C1_Witness ==
    /\ Len(file) = 2 * CHUNK + 1
    /\ Len(chunks) = 3
    /\ downloadUrl = <<file>>

\* C2 (completion): a multi-chunk file sent to a receiver that was bound when
\* `meta` arrived ends COMPLETE.  Every fair run reaches the state in which the
\* sender is DONE and nothing is in flight or pending, so the claim is that
\* in this final state the receiver has exposed an output of the file's size
\* whose digest is meta.hash and has reported the OK status.
C2_Completion ==
    (Len(file) > CHUNK /\ spc = "DONE" /\ Quiescent) =>
       /\ rStatus = StatusOk
       /\ Len(downloadUrl) = 1
       /\ Len(downloadUrl[1]) = Len(file)
       /\ sha256(downloadUrl[1]) = meta.hash

\* The scenario of C2 as a liveness property: a file of two full chunks and a
\* shorter one, every enabled step eventually taken (pending operations
\* complete, frames in flight are delivered).
ScenarioFile == Varied(2 * CHUNK + 1)

InitScenario == Init /\ file = ScenarioFile

Fairness ==
    /\ WF_vars(SendMeta)
    /\ WF_vars(SenderReceive)
    /\ WF_vars(ReaderRead)
    /\ WF_vars(EncryptAndSend)
    /\ WF_vars(SendEnd)
    /\ WF_vars(Bind)
    /\ WF_vars(Deliver)
    /\ WF_vars(\E i \in 1..Len(tasks) : DeriveDone(i))
    /\ WF_vars(\E i \in 1..Len(tasks) : DecryptDone(i))
    /\ WF_vars(\E i \in 1..Len(tasks) : DigestDone(i))

FairSpec == InitScenario /\ [][Next]_vars /\ Fairness

\* C2 in temporal form: from a bound receiver and a sender that has not yet
\* sent `meta`, the receiver eventually is COMPLETE.  Violated under FairSpec
\* by the same runs that violate C2_Completion.
C2_EventuallyComplete == (rbound /\ spc = "INIT") ~> (Complete /\ downloadUrl = <<file>>)

\* C3 (integrity gate): the output is exposed, and the OK status reported,
\* only when the digest of the assembled plaintext equals the hash field of
\* the recorded meta, whatever value that field has.
C3_IntegrityGate ==
    /\ rStatus = StatusOk => downloadUrl /= <<>>
    /\ \A i \in 1..Len(downloadUrl) :
          meta /= Null /\ sha256(downloadUrl[i]) = meta.hash

\* The part of C3 that the code does keep: the gate for a hash field that is
\* not empty.
C3_NonEmptyHash ==
    \A i \in 1..Len(downloadUrl) :
       (meta /= Null /\ Truthy(meta.hash)) => sha256(downloadUrl[i]) = meta.hash

\* C4 (authentication failure is absorbing): when a decryption is rejected no
\* stashed header stays behind, and from then on no step appends plaintext,
\* changes the byte counter or exposes an output.
C4_AuthFailureAbsorbing ==
    [][/\ (authFailed' /\ ~authFailed) => pendingChunkInfo' = Null
       /\ authFailed =>
             /\ chunks' = chunks
             /\ receivedBytes' = receivedBytes
             /\ downloadUrl' = downloadUrl
             /\ pendingChunkInfo' = Null]_vars

\* The head of the channel is a binary frame arriving with no header pending.
StrayBinaryAtHead ==
    /\ rbound
    /\ chanSR /= <<>>
    /\ Head(chanSR).type = "binary"
    /\ pendingChunkInfo = Null
    /\ ~hdrOutstanding

\* The head of the channel is a binary frame that directly follows its header.
PairedBodyAtHead ==
    /\ rbound
    /\ chanSR /= <<>>
    /\ Head(chanSR).type = "binary"
    /\ hdrOutstanding

\* C5 (sender progress): the progress values passed to onProgress never
\* decrease and never exceed 100; once the sender is DONE the last report is
\* exactly progress 100, speed 0, eta 0, and it is issued only with `end` sent.
C5_SenderProgress ==
    /\ \A i \in 1..Len(sProgress) : FracLeq(sProgress[i].progress, <<100, 1>>)
    /\ \A i \in 1..(Len(sProgress) - 1) :
          FracLeq(sProgress[i].progress, sProgress[i + 1].progress)
    /\ spc = "DONE" =>
          /\ sProgress /= <<>>
          /\ Last(sProgress).progress = <<100, 1>>
          /\ Last(sProgress).speed = 0
          /\ Last(sProgress).eta = <<0, 1>>
    /\ \A i \in 1..Len(sProgress) :
          sProgress[i] = FinalReport =>
             /\ i = Len(sProgress)
             /\ sentLog /= <<>>
             /\ Last(sentLog) = EndFrame

\* C5 witness: the sender finished after at least two throttled reports.
C5_Witness ==
    /\ spc = "DONE"
    /\ Len(sProgress) >= 3
    /\ sProgress[1].progress /= sProgress[2].progress

\* The frames between `meta` and `end`: header/body pairs, each body as long
\* as its header says.
RECURSIVE PairsOk(_)
PairsOk(s) ==
    \/ s = <<>>
    \/ /\ Len(s) >= 2
       /\ s[1].type = "chunk"
       /\ s[2].type = "binary"
       /\ CtLen(s[2].ct) = s[1].len
       /\ PairsOk(SubSeq(s, 3, Len(s)))

\* C6 (receiver progress): the values passed to setProgress never decrease
\* and stay within 0..100, and once the receiver is COMPLETE the last value
\* reported is exactly 100.
C6_ReceiverProgress ==
    /\ \A i \in 1..Len(rProgress) :
          FracLeq(<<0, 1>>, rProgress[i]) /\ FracLeq(rProgress[i], <<100, 1>>)
    /\ \A i \in 1..(Len(rProgress) - 1) : FracLeq(rProgress[i], rProgress[i + 1])
    /\ Complete =>
          /\ rProgress /= <<>>
          /\ FracLeq(<<100, 1>>, Last(rProgress))
          /\ FracLeq(Last(rProgress), <<100, 1>>)

\* The part of C6 that the code does keep: monotone, within 0..100, and 100
\* at COMPLETE for every file that is not empty.
C6_NonEmptyFiles ==
    /\ \A i \in 1..Len(rProgress) :
          FracLeq(<<0, 1>>, rProgress[i]) /\ FracLeq(rProgress[i], <<100, 1>>)
    /\ \A i \in 1..(Len(rProgress) - 1) : FracLeq(rProgress[i], rProgress[i + 1])
    /\ (Complete /\ file /= <<>>) =>
          /\ rProgress /= <<>>
          /\ Last(rProgress) = <<100 * Len(file), Len(file)>>

\* C7 (stray binary frame): a binary frame delivered with no header pending
\* changes neither chunks, the byte counter, meta, the key nor the status and
\* starts no operation; and after such a drop every body that follows its
\* header is still handed to decryption under that header's IV.
C7_StrayBinaryDropped ==
    [][/\ (StrayBinaryAtHead /\ chanSR' = Tail(chanSR)) =>
             /\ UNCHANGED <<chunks, receivedBytes, meta, aesKey, rStatus, tasks>>
             /\ UNCHANGED <<pendingChunkInfo, rProgress, downloadUrl>>
       /\ (strayDropped /\ PairedBodyAtHead /\ chanSR' = Tail(chanSR)) =>
             /\ Len(tasks') = Len(tasks) + 1
             /\ Last(tasks').kind = "decrypt"
             /\ Last(tasks').ct = Head(chanSR).ct
             /\ Last(tasks').iv = Head(chanSR).ct.iv]_vars

\* The part of C7 that the code does keep: the drop itself changes nothing.
C7_DropChangesNothing ==
    [][(StrayBinaryAtHead /\ chanSR' = Tail(chanSR)) =>
          /\ UNCHANGED <<chunks, receivedBytes, meta, aesKey, rStatus, tasks>>
          /\ UNCHANGED <<pendingChunkInfo, rProgress, downloadUrl>>]_vars

\* C8 (sender wire sequence): once the sender is DONE, what it sent is one
\* `meta`, then header/body pairs with matching length, then one `end`.
C8_WireSequence ==
    spc = "DONE" =>
       /\ Len(sentLog) >= 2
       /\ sentLog[1].type = "meta"
       /\ Last(sentLog).type = "end"
       /\ PairsOk(SubSeq(sentLog, 2, Len(sentLog) - 1))

\* C8 witness: a finished run with three header/body pairs.
C8_Witness ==
    /\ spc = "DONE"
    /\ Len(sentLog) = 8

\* C9 (zero-byte file): for an empty file the sender sends `meta` with size 0
\* and the digest of the empty input, then, only after `ekey`, `end`, and
\* nothing else; the receiver never reports an integrity failure, and once it
\* has handled `end` it has exposed the empty output with the OK status.
C9_ZeroByteFile ==
    file = <<>> =>
       /\ sentLog \in {<<>>, <<MetaFrame(<<>>)>>, <<MetaFrame(<<>>), EndFrame>>}
       /\ \A i \in 1..Len(sentLog) :
             sentLog[i].type = "meta" =>
                sentLog[i].size = 0 /\ sentLog[i].hash = sha256(<<>>)
       /\ Len(sentLog) = 2 => ekeySeen /\ spc = "DONE"
       /\ spc = "DONE" => Len(sentLog) = 2
       /\ rStatus /= StatusIntegrityFailed
       /\ downloadUrl \in {<<>>, <<(<<>>)>>}
       /\ (spc = "DONE" /\ chanSR = <<>> /\ tasks = <<>>) =>
             /\ rStatus = StatusOk
             /\ downloadUrl = <<(<<>>)>>

\* C9 witness: the empty file was transferred and exposed.
C9_Witness ==
    /\ file = <<>>
    /\ spc = "DONE"
    /\ sentLog = <<MetaFrame(<<>>), EndFrame>>
    /\ downloadUrl = <<(<<>>)>>
    /\ rStatus = StatusOk

\* C10 (handshake ordering): until an `ekey` carrying a key has reached the
\* sender it has sent nothing but `meta` and has not left AWAITING_PEER_KEY.
C10_HandshakeOrdering ==
    ~ekeySeen =>
       /\ spc \in {"INIT", "AWAITING_PEER_KEY"}
       /\ sAesKey = NoKey
       /\ sentLog \in {<<>>, <<MetaFrame(file)>>}
       /\ spc = "AWAITING_PEER_KEY" => sentLog = <<MetaFrame(file)>>

\* C10 witness: the sender was handed a frame that is no proper `ekey` and is
\* still waiting, with `meta` the only frame sent.
C10_Witness ==
    /\ ~ekeySeen
    /\ sIgnored
    /\ spc = "AWAITING_PEER_KEY"
    /\ sentLog = <<MetaFrame(file)>>
    /\ chanRS = <<>>

\* C11 (no dangling header on sender failure): when the sender has stopped
\* after a failed encryption or a failed channel send, every `chunk` header it
\* has sent is followed by its binary body.
C11_NoDanglingHeader ==
    spc = "FAILED" =>
       \A i \in 1..Len(sentLog) :
          sentLog[i].type = "chunk" =>
             /\ i < Len(sentLog)
             /\ sentLog[i + 1].type = "binary"
             /\ CtLen(sentLog[i + 1].ct) = sentLog[i].len

\* C12 (positional framing): under every interleaving of deliveries and
\* completions, a binary frame delivered directly after its header is handed
\* to decryption, with that header's IV (the IV its ciphertext was made with);
\* it is not dropped because an earlier decryption completed late.
C12_PositionalFraming ==
    [][(PairedBodyAtHead /\ chanSR' = Tail(chanSR)) =>
          /\ pendingChunkInfo /= Null
          /\ pendingChunkInfo.iv = Head(chanSR).ct.iv
          /\ Len(tasks') = Len(tasks) + 1
          /\ Last(tasks').kind = "decrypt"
          /\ Last(tasks').ct = Head(chanSR).ct
          /\ Last(tasks').iv = pendingChunkInfo.iv]_vars

\* The head of the channel is `end`, about to be handled.
EndAtHead ==
    /\ rbound
    /\ chanSR /= <<>>
    /\ Head(chanSR).type = "end"

\* C13 (verified output complete and in order): the bytes the receiver
\* digests when it handles `end` are the plaintexts of all authenticated
\* bodies delivered before `end`, concatenated in their order of arrival.
C13_CompleteInOrder ==
    [][(EndAtHead /\ chanSR' = Tail(chanSR)) =>
          /\ Len(tasks') = Len(tasks) + 1
          /\ Last(tasks').kind = "digest"
          /\ Last(tasks').blob = Blob(arrived)]_vars

\* The part of C13 about order alone: the chunk list is, at every moment, a
\* prefix of the plaintexts in arrival order.
C13_ArrivalOrder ==
    /\ Len(chunks) <= Len(arrived)
    /\ chunks = SubSeq(arrived, 1, Len(chunks))

\* C14 (second header before a body): a header delivered while an earlier one
\* is stashed and no body has arrived for it leaves the stashed header as it
\* was, unless the receiver reports a failure.
C14_SecondHeader ==
    [][(/\ rbound
        /\ chanSR /= <<>>
        /\ Head(chanSR).type = "chunk"
        /\ hdrOutstanding
        /\ pendingChunkInfo /= Null
        /\ chanSR' = Tail(chanSR)) =>
          \/ pendingChunkInfo' = pendingChunkInfo
          \/ rStatus' = StatusIntegrityFailed]_vars

\* C15 (recorded metadata is immutable): once a `meta` is recorded, the
\* expected size and the expected hash stay what they are in every later step.
C15_MetaImmutable ==
    [][meta /= Null =>
          /\ meta' /= Null
          /\ meta'.size = meta.size
          /\ meta'.hash = meta.hash]_vars

\* The plaintext slices the sender has encrypted and sent, in order.
RECURSIVE SentSlices(_)
SentSlices(log) ==
    IF log = <<>> THEN <<>>
    ELSE IF Head(log).type = "binary"
         THEN <<Head(log).ct.pt>> \o SentSlices(Tail(log))
         ELSE SentSlices(Tail(log))

\* C16 (chunk partitioning): however the reader splits the file, the slices
\* are consecutive from byte 0 and cover the file once the sender is DONE;
\* each has 1..CHUNK bytes, each but the last exactly CHUNK, and the empty
\* file has none.
C16_ChunkPartitioning ==
    LET sl == SentSlices(sentLog)
    IN  /\ Blob(sl) = SubSeq(file, 1, sent)
        /\ spc = "DONE" => Blob(sl) = file
        /\ \A i \in 1..Len(sl) : Len(sl[i]) >= 1 /\ Len(sl[i]) <= CHUNK
        /\ \A i \in 1..(Len(sl) - 1) : Len(sl[i]) = CHUNK
        /\ file = <<>> => sl = <<>>

\* The part of C16 that the code does keep: consecutive slices of 1..CHUNK
\* bytes that cover the file.
C16_CoverInOrder ==
    LET sl == SentSlices(sentLog)
    IN  /\ Blob(sl) = SubSeq(file, 1, sent)
        /\ spc = "DONE" => Blob(sl) = file
        /\ \A i \in 1..Len(sl) : Len(sl[i]) >= 1 /\ Len(sl[i]) <= CHUNK
        /\ file = <<>> => sl = <<>>

\* C17 (case-insensitive comparison): when the digest of the assembled bytes
\* equals meta.hash up to the case of the hex letters, the end branch exposes
\* the output and reports the OK status.
C17_CaseInsensitive ==
    [][\A i \in 1..Len(tasks) :
          (/\ tasks[i].kind = "digest"
           /\ tasks' = RemoveAt(tasks, i)
           /\ meta /= Null
           /\ LowerCase(meta.hash) = LowerCase(sha256(tasks[i].blob))) =>
             /\ rStatus' = StatusOk
             /\ downloadUrl' = Append(downloadUrl, tasks[i].blob)]_vars

\* C18 (no frame lost while the receiver prepares its keys): every `meta`
\* delivered once bind(dc) was invoked, the time before its key pair is ready
\* included, is recorded and starts the derivation that ends with `ekey`.
C18_NoFrameLost ==
    [][(/\ chanSR /= <<>>
        /\ Head(chanSR).type = "meta"
        /\ chanSR' = Tail(chanSR)) =>
          /\ meta' = Head(chanSR)
          /\ Len(tasks') = Len(tasks) + 1
          /\ Last(tasks').kind = "derive"]_vars

\* The consequence C18 names: the sender is never left waiting for `ekey`
\* with the receiver's handler installed and nothing in flight or pending.
C18_NoStall == ~(spc = "AWAITING_PEER_KEY" /\ rbound /\ Quiescent)

\* C19 (decryption never runs without a key): with the sender of this
\* program and an in-order channel, every decryption the receiver starts is
\* started with the derived key, and no binary frame is in flight before the
\* receiver has the key.
C19_KeyBeforeDecrypt ==
    /\ \A i \in 1..Len(tasks) :
          tasks[i].kind = "decrypt" =>
             /\ tasks[i].key /= NoKey
             /\ tasks[i].key = deriveAesKey(ReceiverKeys, SenderKeys)
    /\ \A i \in 1..Len(chanSR) : chanSR[i].type = "binary" => aesKey /= NoKey

\* C19 witness: a second decryption was started while the first was done.
C19_Witness ==
    /\ Len(chunks) >= 1
    /\ \E i \in 1..Len(tasks) : tasks[i].kind = "decrypt" /\ tasks[i].key = aesKey

\* C20 (sessions isolated on the receiver): whenever a `meta` is recorded,
\* also the `meta` of a second transfer over the same channel, the receiver
\* starts from an empty chunk list, a byte counter of 0 and no stashed header.
C20_SessionIsolation ==
    [][(/\ rbound
        /\ chanSR /= <<>>
        /\ Head(chanSR).type = "meta"
        /\ chanSR' = Tail(chanSR)) =>
          /\ chunks' = <<>>
          /\ receivedBytes' = 0
          /\ pendingChunkInfo' = Null]_vars

====
